---- MODULE Spec2Model ----
(***************************************************************************)
(* Connection manager and operation dispatcher of the two API handlers     *)
(*   mindsdb/integrations/handlers/frappe_handler/frappe_handler.py        *)
(*   mindsdb/integrations/handlers/rocket_chat_handler/rocket_chat_handler.py *)
(* One handler instance is modelled per behaviour; the adapter and the     *)
(* connection data it is constructed from are chosen in Init.  Every       *)
(* method is an operator from the handler's fields (self), the vendor      *)
(* clients built so far and the outcome of the environment (client         *)
(* constructor, ping, vendor call, HTTP response) to an outcome record     *)
(*   [self, clients, ret, raised, vendor]                                  *)
(* where raised is the exception that leaves the method (None if it        *)
(* returns), ret the returned value and vendor the vendor-client methods   *)
(* invoked during the call, in order, each with the reply it got.          *)
(***************************************************************************)
EXTENDS Integers, Sequences, FiniteSets, TLC

VARIABLES adapter, connection_data, phase, self, clients, op, prev

vars == <<adapter, connection_data, phase, self, clients, op, prev>>

\* Largest number of vendor clients one handler constructs in a behaviour.
MaxClients == 2

\* Python's None for string-valued fields, handles, results and exceptions.
None == "None"

\* Python's None where a mapping (dict) is expected.
NoneDict == [None |-> TRUE]

\* bool(v) of a field that holds None, a string or a client handle.
Truthy(v) == v # None /\ v # ""

\* Identity of the n-th client object constructed.
ClientId(n) == "client" \o ToString(n)

\* HandlerStatusResponse(success): error_message defaults to None.
StatusResponse(success) == [success |-> success, error_message |-> None]

\* Outcome of a call that raises exc after the steps recorded in o.
Raise(o, exc) == [o EXCEPT !.raised = exc, !.ret = None]

\* One invocation of a vendor-client method and the reply of the vendor:
\* the exception it raised (None if it returned) and the value it returned.
VendorCall(client, method, args, exc, value) ==
    [client |-> client, method |-> method, args |-> args,
     reply |-> [raised |-> exc, value |-> value]]

-----------------------------------------------------------------------------
(* json.dumps / json.loads on flat documents.  A document is the ordered   *)
(* sequence of its <<key, value>> items (a Python dict keeps insertion     *)
(* order); dumps writes the text, loads accepts exactly the texts dumps    *)
(* writes for a document of the universe and raises on any other text.     *)

RECURSIVE json_items(_)
json_items(d) ==
    IF d = <<>> THEN ""
    ELSE LET item == "\"" \o d[1][1] \o "\": \"" \o d[1][2] \o "\""
         IN IF Len(d) = 1 THEN item ELSE item \o ", " \o json_items(Tail(d))

json_dumps(d) == "{" \o json_items(d) \o "}"

\* Documents a client submits.
Docs ==
    { <<>>, << <<"company", "CloudE8">>, <<"employee", "HR-EMP-00001">> >> }

\* Fields the server assigns to a stored document.
ServerFields == << <<"name", "EXP-0001">> >>

\* Documents the server returns.
ServerDocs == { d \o ServerFields : d \in Docs }

\* Parsed JSON bodies of Rocket.Chat responses.
Bodies == { << <<"username", "bot">> >>, << <<"success", "true">> >> }

JsonUniverse == Docs \cup ServerDocs \cup Bodies

json_loads(text) ==
    IF \E d \in JsonUniverse : json_dumps(d) = text
    THEN [raised |-> None, value |-> CHOOSE d \in JsonUniverse : json_dumps(d) = text]
    ELSE [raised |-> "JSONDecodeError", value |-> <<>>]

\* 'k in d' and d[k] for a parsed document.
DocHas(d, k) == \E i \in 1..Len(d) : d[i][1] = k
DocGet(d, k) == d[CHOOSE i \in 1..Len(d) : d[i][1] = k][2]

-----------------------------------------------------------------------------
(* FrappeHandler                                                           *)

\* FrappeClient(domain, access_token): the constructor returns a new client
\* object or raises, as the environment decides.
FrappeClient_new(cl, domain, access_token) ==
    Append(cl, [domain |-> domain, access_token |-> access_token])

FrappeHandler__init__(args) ==
    LET s0 == [client |-> None, is_connected |-> FALSE,
               access_token |-> None, domain |-> None]
        o0 == [self |-> s0, clients |-> <<>>, ret |-> None, raised |-> None,
               vendor |-> <<>>]
    IN IF ~("access_token" \in DOMAIN args) THEN Raise(o0, "ValueError")
       ELSE IF ~("domain" \in DOMAIN args) THEN Raise(o0, "ValueError")
       ELSE [o0 EXCEPT !.self = [s0 EXCEPT !.access_token = args.access_token,
                                           !.domain = args.domain]]

\* Faulty variant of connect: no memoization, a client is constructed on
\* every call.
FrappeHandler_connect_NoMemo(s, cl, ctor_ok) ==
    LET o0 == [self |-> s, clients |-> cl, ret |-> None, raised |-> None,
               vendor |-> <<>>]
    IN IF Truthy(s.domain) /\ Truthy(s.access_token)
       THEN IF ~ctor_ok THEN Raise(o0, "ConnectionError")
            ELSE LET cl1 == FrappeClient_new(cl, s.domain, s.access_token)
                     c == ClientId(Len(cl1))
                 IN [o0 EXCEPT !.self = [s EXCEPT !.client = c, !.is_connected = TRUE],
                               !.clients = cl1, !.ret = c]
       ELSE [o0 EXCEPT !.self = [s EXCEPT !.is_connected = TRUE],
                       !.ret = s.client]

FrappeHandler_connect(s, cl, ctor_ok) ==
    LET o0 == [self |-> s, clients |-> cl, ret |-> None, raised |-> None,
               vendor |-> <<>>]
    IN IF s.is_connected = TRUE /\ Truthy(s.client)
       THEN [o0 EXCEPT !.ret = s.client]
       ELSE IF Truthy(s.domain) /\ Truthy(s.access_token)
       THEN IF ~ctor_ok THEN Raise(o0, "ConnectionError")
            ELSE LET cl1 == FrappeClient_new(cl, s.domain, s.access_token)
                     c == ClientId(Len(cl1))
                 IN [o0 EXCEPT !.self = [s EXCEPT !.client = c, !.is_connected = TRUE],
                               !.clients = cl1, !.ret = c]
       ELSE [o0 EXCEPT !.self = [s EXCEPT !.is_connected = TRUE],
                       !.ret = s.client]

FrappeHandler_company_exists(name) == ~(name \notin {"CloudE8"})

FrappeHandler_employee_code_exists(name) == ~(name \notin {"HR-EMP-00001"})

\* The try body of check_connection: the exception it ends with (None if it
\* completes) and the vendor calls it made.
FrappeHandler_check_connection_try(c, ping_ok) ==
    IF c.raised # None THEN [exc |-> c.raised, vendor |-> <<>>]
    ELSE IF c.ret = None THEN [exc |-> "AttributeError", vendor |-> <<>>]
    ELSE LET exc == IF ping_ok THEN None ELSE "PingError"
             ping == VendorCall(c.ret, "ping", <<>>, exc, None)
         IN [exc |-> exc, vendor |-> <<ping>>]

\* Faulty variant of check_connection: the ping is outside the try block, so
\* its exception leaves the method.
FrappeHandler_check_connection_PingOutsideTry(s, cl, ctor_ok, ping_ok) ==
    LET response0 == StatusResponse(FALSE)
        c == FrappeHandler_connect(s, cl, ctor_ok)
        t == FrappeHandler_check_connection_try(c, ping_ok)
        response == IF t.exc = None
                    THEN [response0 EXCEPT !.success = TRUE]
                    ELSE [response0 EXCEPT !.error_message = t.exc]
    IN IF t.exc # None /\ t.vendor # <<>>
       THEN [self |-> c.self, clients |-> c.clients, ret |-> None,
             raised |-> t.exc, vendor |-> t.vendor]
       ELSE [self |-> [c.self EXCEPT !.is_connected = response.success],
             clients |-> c.clients, ret |-> response, raised |-> None,
             vendor |-> t.vendor]

\* Faulty variant of check_connection: is_connected is not assigned from the
\* response.
FrappeHandler_check_connection_NoFlag(s, cl, ctor_ok, ping_ok) ==
    LET response0 == StatusResponse(FALSE)
        c == FrappeHandler_connect(s, cl, ctor_ok)
        t == FrappeHandler_check_connection_try(c, ping_ok)
        response == IF t.exc = None
                    THEN [response0 EXCEPT !.success = TRUE]
                    ELSE [response0 EXCEPT !.error_message = t.exc]
    IN [self |-> c.self, clients |-> c.clients, ret |-> response,
        raised |-> None, vendor |-> t.vendor]

FrappeHandler_check_connection(s, cl, ctor_ok, ping_ok) ==
    LET response0 == StatusResponse(FALSE)
        c == FrappeHandler_connect(s, cl, ctor_ok)
        t == FrappeHandler_check_connection_try(c, ping_ok)
        response == IF t.exc = None
                    THEN [response0 EXCEPT !.success = TRUE]
                    ELSE [response0 EXCEPT !.error_message = t.exc]
    IN [self |-> [c.self EXCEPT !.is_connected = response.success],
        clients |-> c.clients, ret |-> response, raised |-> None,
        vendor |-> t.vendor]

FrappeHandler_document_to_dataframe_row(doctype, document) ==
    [doctype |-> doctype, data |-> json_dumps(document)]


\* params[k]: TypeError on None, KeyError on a missing key.
Subscript_raises(params, k) ==
    IF params = NoneDict THEN "TypeError"
    ELSE IF k \notin DOMAIN params THEN "KeyError"
    ELSE None

\* params[k] if the key is there, None otherwise ('if k in params: ...').
Optional(params, k) == IF k \in DOMAIN params THEN params[k] ELSE None

FrappeHandler_get_document(s, cl, params, env) ==
    LET c == FrappeHandler_connect(s, cl, env.ctor_ok)
    IN IF c.raised # None THEN c
       ELSE IF Subscript_raises(params, "doctype") # None
       THEN Raise(c, Subscript_raises(params, "doctype"))
       ELSE IF c.ret = None THEN Raise(c, "AttributeError")
       ELSE IF Subscript_raises(params, "name") # None
       THEN Raise(c, Subscript_raises(params, "name"))
       ELSE LET exc == IF env.call_ok THEN None ELSE "RequestError"
                document == IF env.call_ok THEN env.doc ELSE <<>>
                call == VendorCall(c.ret, "get_document",
                                   <<params.doctype, params.name>>, exc, document)
            IN IF exc # None
               THEN [Raise(c, exc) EXCEPT !.vendor = <<call>>]
               ELSE [c EXCEPT !.vendor = <<call>>,
                              !.ret = << FrappeHandler_document_to_dataframe_row(
                                            params.doctype, document) >>]

FrappeHandler_get_documents(s, cl, params, env) ==
    LET c == FrappeHandler_connect(s, cl, env.ctor_ok)
    IN IF c.raised # None THEN c
       ELSE IF Subscript_raises(params, "doctype") # None
       THEN Raise(c, Subscript_raises(params, "doctype"))
       ELSE IF c.ret = None THEN Raise(c, "AttributeError")
       ELSE LET limit == Optional(params, "limit")
                filters == Optional(params, "filters")
                exc == IF env.call_ok THEN None ELSE "RequestError"
                documents == IF env.call_ok THEN env.docs ELSE <<>>
                call == VendorCall(c.ret, "get_documents",
                                   <<params.doctype, limit, filters>>, exc, documents)
            IN IF exc # None
               THEN [Raise(c, exc) EXCEPT !.vendor = <<call>>]
               ELSE [c EXCEPT !.vendor = <<call>>,
                              !.ret = [i \in 1..Len(documents) |->
                                        FrappeHandler_document_to_dataframe_row(
                                            params.doctype, documents[i])]]

FrappeHandler_create_document(s, cl, params, env) ==
    LET c == FrappeHandler_connect(s, cl, env.ctor_ok)
    IN IF c.raised # None THEN c
       ELSE IF Subscript_raises(params, "doctype") # None
       THEN Raise(c, Subscript_raises(params, "doctype"))
       ELSE IF c.ret = None THEN Raise(c, "AttributeError")
       ELSE IF Subscript_raises(params, "data") # None
       THEN Raise(c, Subscript_raises(params, "data"))
       ELSE IF json_loads(params.data).raised # None
       THEN Raise(c, json_loads(params.data).raised)
       ELSE LET document == json_loads(params.data).value
                exc == IF env.call_ok THEN None ELSE "RequestError"
                new_document == IF env.call_ok THEN document \o ServerFields
                                ELSE <<>>
                call == VendorCall(c.ret, "post_document",
                                   <<params.doctype, document>>, exc, new_document)
            IN IF exc # None
               THEN [Raise(c, exc) EXCEPT !.vendor = <<call>>]
               ELSE [c EXCEPT !.vendor = <<call>>,
                              !.ret = << FrappeHandler_document_to_dataframe_row(
                                            params.doctype, new_document) >>]

\* Faulty variant of call_frappe_api: connects before it looks at the
\* method name.
FrappeHandler_call_frappe_api_ConnectFirst(s, cl, method_name, params, env) ==
    LET c == FrappeHandler_connect(s, cl, env.ctor_ok)
    IN IF c.raised # None THEN c
       ELSE IF method_name = "get_documents"
       THEN FrappeHandler_get_documents(c.self, c.clients, params, env)
       ELSE IF method_name = "get_document"
       THEN FrappeHandler_get_document(c.self, c.clients, params, env)
       ELSE IF method_name = "create_document"
       THEN FrappeHandler_create_document(c.self, c.clients, params, env)
       ELSE Raise(c, "NotImplementedError")

FrappeHandler_call_frappe_api(s, cl, method_name, params, env) ==
    IF method_name = "get_documents"
    THEN FrappeHandler_get_documents(s, cl, params, env)
    ELSE IF method_name = "get_document"
    THEN FrappeHandler_get_document(s, cl, params, env)
    ELSE IF method_name = "create_document"
    THEN FrappeHandler_create_document(s, cl, params, env)
    ELSE Raise([self |-> s, clients |-> cl, ret |-> None, raised |-> None,
                vendor |-> <<>>], "NotImplementedError")

\* call_frappe_api('create_document', **data): Python binds the items of
\* data as keyword arguments of call_frappe_api(self, method_name, params).
\* A keyword that is no parameter, or that names the parameter already bound
\* positionally, is a TypeError raised before the body runs.
FrappeHandler_claim_expense(s, cl, data, env) ==
    LET o0 == [self |-> s, clients |-> cl, ret |-> None, raised |-> None,
               vendor |-> <<>>]
    IN IF \E k \in DOMAIN data : k \notin {"method_name", "params"}
       THEN Raise(o0, "TypeError")
       ELSE IF "method_name" \in DOMAIN data
       THEN Raise(o0, "TypeError")
       ELSE LET params == IF "params" \in DOMAIN data THEN data.params
                          ELSE NoneDict
                r == FrappeHandler_call_frappe_api(s, cl, "create_document",
                                                   params, env)
            IN [r EXCEPT !.ret = None]

-----------------------------------------------------------------------------
(* RocketChatHandler                                                       *)

\* RocketChat(user, password, auth_token, user_id, server_url): the
\* constructor returns a new client object or raises (it logs in over the
\* network when given a user and password), as the environment decides.
RocketChat_new(cl, user, password, auth_token, user_id, server_url) ==
    Append(cl, [user |-> user, password |-> password, auth_token |-> auth_token,
                user_id |-> user_id, server_url |-> server_url])

\* Methods of the vendor client that getattr resolves.
ClientMethods == {"me", "channels_list", "chat_post_message"}

\* requests.Response.raise_for_status and .ok
Response_raise_for_status(r) ==
    IF 400 <= r.status_code /\ r.status_code < 600 THEN "HTTPError" ELSE None

Response_ok(r) == Response_raise_for_status(r) = None

\* Faulty variant of __init__: no error when neither pair is complete.
RocketChatHandler__init__NoAuthCheck(args) ==
    LET s0 == [username |-> None, password |-> None, auth_token |-> None,
               auth_user_id |-> None, domain |-> None,
               client |-> None, is_connected |-> FALSE]
        o0 == [self |-> s0, clients |-> <<>>, ret |-> None, raised |-> None,
               vendor |-> <<>>]
    IN IF "domain" \notin DOMAIN args THEN Raise(o0, "ValueError")
       ELSE LET s1 == [s0 EXCEPT !.domain = args.domain]
            IN IF "token" \in DOMAIN args /\ "user_id" \in DOMAIN args
               THEN [o0 EXCEPT !.self = [s1 EXCEPT !.auth_token = args.token,
                                                   !.auth_user_id = args.user_id]]
               ELSE IF "username" \in DOMAIN args /\ "password" \in DOMAIN args
               THEN [o0 EXCEPT !.self = [s1 EXCEPT !.username = args.username,
                                                   !.password = args.password]]
               ELSE [o0 EXCEPT !.self = s1]

\* Faulty variant of __init__: the two pairs are tested independently, so
\* both are bound when both are complete.
RocketChatHandler__init__BindBoth(args) ==
    LET s0 == [username |-> None, password |-> None, auth_token |-> None,
               auth_user_id |-> None, domain |-> None,
               client |-> None, is_connected |-> FALSE]
        o0 == [self |-> s0, clients |-> <<>>, ret |-> None, raised |-> None,
               vendor |-> <<>>]
        tok == "token" \in DOMAIN args /\ "user_id" \in DOMAIN args
        pwd == "username" \in DOMAIN args /\ "password" \in DOMAIN args
    IN IF "domain" \notin DOMAIN args THEN Raise(o0, "ValueError")
       ELSE LET s1 == [s0 EXCEPT !.domain = args.domain]
                s2 == IF tok THEN [s1 EXCEPT !.auth_token = args.token,
                                             !.auth_user_id = args.user_id]
                      ELSE s1
                s3 == IF pwd THEN [s2 EXCEPT !.username = args.username,
                                             !.password = args.password]
                      ELSE s2
            IN IF tok \/ pwd THEN [o0 EXCEPT !.self = s3]
               ELSE Raise([o0 EXCEPT !.self = s1], "ValueError")

RocketChatHandler__init__(args) ==
    LET s0 == [username |-> None, password |-> None, auth_token |-> None,
               auth_user_id |-> None, domain |-> None,
               client |-> None, is_connected |-> FALSE]
        o0 == [self |-> s0, clients |-> <<>>, ret |-> None, raised |-> None,
               vendor |-> <<>>]
    IN IF "domain" \notin DOMAIN args THEN Raise(o0, "ValueError")
       ELSE LET s1 == [s0 EXCEPT !.domain = args.domain]
            IN IF "token" \in DOMAIN args /\ "user_id" \in DOMAIN args
               THEN [o0 EXCEPT !.self = [s1 EXCEPT !.auth_token = args.token,
                                                   !.auth_user_id = args.user_id]]
               ELSE IF "username" \in DOMAIN args /\ "password" \in DOMAIN args
               THEN [o0 EXCEPT !.self = [s1 EXCEPT !.username = args.username,
                                                   !.password = args.password]]
               ELSE Raise([o0 EXCEPT !.self = s1], "ValueError")

\* Faulty variant of connect: no memoization, a client is constructed on
\* every call.
RocketChatHandler_connect_NoMemo(s, cl, ctor_ok) ==
    LET o0 == [self |-> s, clients |-> cl, ret |-> None, raised |-> None,
               vendor |-> <<>>]
    IN IF ~ctor_ok THEN Raise(o0, "ConnectionError")
       ELSE LET cl1 == RocketChat_new(cl, s.username, s.password, s.auth_token,
                                      s.auth_user_id, s.domain)
                c == ClientId(Len(cl1))
            IN [o0 EXCEPT !.self = [s EXCEPT !.client = c, !.is_connected = TRUE],
                          !.clients = cl1, !.ret = c]

RocketChatHandler_connect(s, cl, ctor_ok) ==
    LET o0 == [self |-> s, clients |-> cl, ret |-> None, raised |-> None,
               vendor |-> <<>>]
    IN IF s.is_connected /\ s.client # None
       THEN [o0 EXCEPT !.ret = s.client]
       ELSE IF ~ctor_ok THEN Raise(o0, "ConnectionError")
       ELSE LET cl1 == RocketChat_new(cl, s.username, s.password, s.auth_token,
                                      s.auth_user_id, s.domain)
                c == ClientId(Len(cl1))
            IN [o0 EXCEPT !.self = [s EXCEPT !.client = c, !.is_connected = TRUE],
                          !.clients = cl1, !.ret = c]

RocketChatHandler_check_connection(s, cl, ctor_ok) ==
    LET response0 == StatusResponse(FALSE)
        c == RocketChatHandler_connect(s, cl, ctor_ok)
        response == IF c.raised = None
                    THEN [response0 EXCEPT !.success = TRUE]
                    ELSE [response0 EXCEPT !.error_message = c.raised]
    IN [self |-> IF response.success = FALSE
                 THEN [c.self EXCEPT !.is_connected = FALSE]
                 ELSE c.self,
        clients |-> c.clients, ret |-> response, raised |-> None,
        vendor |-> <<>>]

\* Faulty variant of call_api: the JSON body is returned whatever the HTTP
\* status of the response.
RocketChatHandler_call_api_NoStatusCheck(s, cl, method_name, env) ==
    LET c == RocketChatHandler_connect(s, cl, env.ctor_ok)
    IN IF c.raised # None THEN c
       ELSE IF method_name = None THEN Raise(c, "TypeError")
       ELSE IF method_name \notin ClientMethods THEN Raise(c, "AttributeError")
       ELSE LET exc == IF env.call_ok THEN None ELSE "ConnectionError"
                messages_response == env.response
                call == VendorCall(c.ret, method_name, <<>>, exc, messages_response)
                o1 == [c EXCEPT !.vendor = <<call>>]
            IN IF exc # None THEN Raise(o1, exc)
               ELSE IF json_loads(messages_response.text).raised # None
               THEN Raise(o1, json_loads(messages_response.text).raised)
               ELSE [o1 EXCEPT !.ret = json_loads(messages_response.text).value]

RocketChatHandler_call_api(s, cl, method_name, env) ==
    LET c == RocketChatHandler_connect(s, cl, env.ctor_ok)
    IN IF c.raised # None THEN c
       ELSE IF method_name = None THEN Raise(c, "TypeError")
       ELSE IF method_name \notin ClientMethods THEN Raise(c, "AttributeError")
       ELSE LET exc == IF env.call_ok THEN None ELSE "ConnectionError"
                messages_response == env.response
                call == VendorCall(c.ret, method_name, <<>>, exc, messages_response)
                o1 == [c EXCEPT !.vendor = <<call>>]
            IN IF exc # None THEN Raise(o1, exc)
               ELSE IF ~Response_ok(messages_response)
                       /\ Response_raise_for_status(messages_response) # None
               THEN Raise(o1, Response_raise_for_status(messages_response))
               ELSE IF json_loads(messages_response.text).raised # None
               THEN Raise(o1, json_loads(messages_response.text).raised)
               ELSE [o1 EXCEPT !.ret = json_loads(messages_response.text).value]

RocketChatHandler_get_my_user_name(s, cl, env) ==
    LET r == RocketChatHandler_call_api(s, cl, "me", env)
    IN IF r.raised # None THEN r
       ELSE IF ~DocHas(r.ret, "username") THEN Raise(r, "KeyError")
       ELSE [r EXCEPT !.ret = DocGet(r.ret, "username")]

RocketChatHandler_get_chat_config ==
    [polling |-> [type |-> "message_count", table |-> "directs",
                  chat_id_col |-> "_id", count_col |-> "msgs"],
     chat_table |-> [name |-> "direct_messages", chat_id_col |-> "room_id",
                     username_col |-> "username", text_col |-> "text"]]

-----------------------------------------------------------------------------
(* Inputs and environment outcomes                                         *)

\* Mappings from any subset of the keys to a value allowed for the key.
Mappings(keys, allowed) ==
    UNION { { f \in [K -> UNION { allowed[k] : k \in keys }] :
                \A k \in K : f[k] \in allowed[k] } : K \in SUBSET keys }

FrappeConnectionData ==
    Mappings({"access_token", "domain"},
             [access_token |-> {"", "t"}, domain |-> {"", "https://x.example"}])

RocketChatConnectionData ==
    Mappings({"domain", "token", "user_id", "username", "password"},
             [domain |-> {"https://mindsdb.rocket.chat"}, token |-> {"tok"},
              user_id |-> {"uid"}, username |-> {"bot"}, password |-> {"pw"}])

MethodNames ==
    {"get_document", "get_documents", "create_document", "delete_document", None}

FrappeParams ==
    { NoneDict, <<>>,
      [doctype |-> "Expense Claim"],
      [doctype |-> "Expense Claim", name |-> "EXP-0001"],
      [doctype |-> "Expense Claim", limit |-> "5", filters |-> "company=CloudE8"],
      [doctype |-> "Expense Claim", data |-> "{not json"] }
    \cup { [doctype |-> "Expense Claim", data |-> json_dumps(d)] : d \in Docs }

ExpensePayloads ==
    { [doctype |-> "Expense Claim", data |-> json_dumps(d)] : d \in Docs }
    \cup { [params |-> [doctype |-> "Expense Claim", data |-> json_dumps(d)]] :
             d \in Docs }
    \cup { <<>>, [doctype |-> "Expense Claim"],
           [method_name |-> "get_document"] }

FrappeEnv ==
    [ctor_ok : BOOLEAN, call_ok : BOOLEAN, doc : ServerDocs,
     docs : {<<>>} \cup { <<d>> : d \in ServerDocs }]

\* The environments that differ in what method_name can observe: the reply
\* to a vendor method the call does not make is fixed.
FrappeEnvFor(method_name) ==
    { e \in FrappeEnv :
        /\ (method_name # "get_document" \/ ~e.call_ok) => e.doc = ServerFields
        /\ (method_name # "get_documents" \/ ~e.call_ok) => e.docs = <<>> }

ApiMethodNames == ClientMethods \cup {"no_such_method", None}

Responses ==
    [status_code : {200, 404, 500},
     text : { json_dumps(b) : b \in Bodies } \cup {"<html>"}]

\* No response exists when the vendor method raised.
NoResponse == [status_code |-> 0, text |-> ""]

RocketChatEnv ==
    [ctor_ok : BOOLEAN, call_ok : {TRUE}, response : Responses]
    \cup [ctor_ok : BOOLEAN, call_ok : {FALSE}, response : {NoResponse}]

Names == {"CloudE8", "Acme", "HR-EMP-00001"}

-----------------------------------------------------------------------------
(* State machine                                                           *)

\* The record kept of the latest call: its name and arguments, the exception
\* it raised, the value it returned (ret is empty if it raised), the vendor
\* calls it made, the handler's fields when it started and the number of
\* clients it constructed.
Call(name, args, o) ==
    [name |-> name, args |-> args, raised |-> o.raised,
     ret |-> IF o.raised = None THEN <<o.ret>> ELSE <<>>,
     vendor |-> o.vendor, pre |-> self, built |-> Len(o.clients) - Len(clients)]

\* What is remembered of the call before the latest one: its name, its
\* exception, and the handle it returned if it was connect().
Before ==
    [name |-> op.name, raised |-> op.raised,
     client |-> IF op.name = "connect" /\ op.ret # <<>> THEN op.ret[1] ELSE None]

NoCall ==
    [name |-> None, args |-> <<>>, raised |-> None, ret |-> <<>>,
     vendor |-> <<>>, pre |-> [client |-> None, is_connected |-> FALSE],
     built |-> 0]

Init ==
    /\ adapter \in {"frappe", "rocket"}
    /\ connection_data \in IF adapter = "frappe" THEN FrappeConnectionData
                           ELSE RocketChatConnectionData
    /\ phase = "new"
    /\ self = [client |-> None, is_connected |-> FALSE]
    /\ clients = <<>>
    /\ op = NoCall
    /\ prev = [name |-> None, raised |-> None, client |-> None]

\* A constructor call: the handler exists afterwards iff it did not raise.
Construct(o) ==
    /\ phase = "new"
    /\ phase' = IF o.raised = None THEN "ready" ELSE "failed"
    /\ self' = o.self
    /\ clients' = o.clients
    /\ op' = Call("__init__", connection_data, o)
    /\ prev' = Before
    /\ UNCHANGED <<adapter, connection_data>>

\* A method call on the constructed handler.
Invoke(name, args, o) ==
    /\ phase = "ready"
    /\ Len(o.clients) <= MaxClients
    /\ self' = o.self
    /\ clients' = o.clients
    /\ op' = Call(name, args, o)
    /\ prev' = Before
    /\ UNCHANGED <<adapter, connection_data, phase>>

\* A method that only reads: returns ret, touches nothing.
Pure(ret) ==
    [self |-> self, clients |-> clients, ret |-> ret, raised |-> None,
     vendor |-> <<>>]

NewFrappeHandler ==
    /\ adapter = "frappe"
    /\ Construct(FrappeHandler__init__(connection_data))

FrappeConnect ==
    /\ adapter = "frappe"
    /\ \E ctor_ok \in BOOLEAN :
         Invoke("connect", <<>>, FrappeHandler_connect(self, clients, ctor_ok))

FrappeCheckConnection ==
    /\ adapter = "frappe"
    /\ \E ctor_ok \in BOOLEAN, ping_ok \in BOOLEAN :
         Invoke("check_connection", <<>>,
                FrappeHandler_check_connection(self, clients, ctor_ok, ping_ok))

FrappeCallFrappeApi ==
    /\ adapter = "frappe"
    /\ \E method_name \in MethodNames, params \in FrappeParams :
       \E env \in FrappeEnvFor(method_name) :
         Invoke("call_frappe_api",
                [method_name |-> method_name, params |-> params],
                FrappeHandler_call_frappe_api(self, clients, method_name,
                                              params, env))

FrappeClaimExpense ==
    /\ adapter = "frappe"
    /\ \E data \in ExpensePayloads, env \in FrappeEnvFor("create_document") :
         Invoke("claim_expense", [data |-> data],
                FrappeHandler_claim_expense(self, clients, data, env))

FrappeCompanyExists ==
    /\ adapter = "frappe"
    /\ \E name \in Names :
         Invoke("company_exists", [name |-> name],
                Pure(FrappeHandler_company_exists(name)))

FrappeEmployeeCodeExists ==
    /\ adapter = "frappe"
    /\ \E name \in Names :
         Invoke("employee_code_exists", [name |-> name],
                Pure(FrappeHandler_employee_code_exists(name)))

NewRocketChatHandler ==
    /\ adapter = "rocket"
    /\ Construct(RocketChatHandler__init__(connection_data))

RocketChatConnect ==
    /\ adapter = "rocket"
    /\ \E ctor_ok \in BOOLEAN :
         Invoke("connect", <<>>, RocketChatHandler_connect(self, clients, ctor_ok))

RocketChatCheckConnection ==
    /\ adapter = "rocket"
    /\ \E ctor_ok \in BOOLEAN :
         Invoke("check_connection", <<>>,
                RocketChatHandler_check_connection(self, clients, ctor_ok))

RocketChatCallApi ==
    /\ adapter = "rocket"
    /\ \E method_name \in ApiMethodNames, env \in RocketChatEnv :
         Invoke("call_api", [method_name |-> method_name],
                RocketChatHandler_call_api(self, clients, method_name, env))

RocketChatGetMyUserName ==
    /\ adapter = "rocket"
    /\ \E env \in RocketChatEnv :
         Invoke("get_my_user_name", <<>>,
                RocketChatHandler_get_my_user_name(self, clients, env))

RocketChatGetChatConfig ==
    /\ adapter = "rocket"
    /\ Invoke("get_chat_config", <<>>, Pure(RocketChatHandler_get_chat_config))

Next ==
    \/ NewFrappeHandler
    \/ FrappeConnect
    \/ FrappeCheckConnection
    \/ FrappeCallFrappeApi
    \/ FrappeClaimExpense
    \/ FrappeCompanyExists
    \/ FrappeEmployeeCodeExists
    \/ NewRocketChatHandler
    \/ RocketChatConnect
    \/ RocketChatCheckConnection
    \/ RocketChatCallApi
    \/ RocketChatGetMyUserName
    \/ RocketChatGetChatConfig

Spec == Init /\ [][Next]_vars

-----------------------------------------------------------------------------
(* Properties                                                              *)

Constructed == phase = "ready"

\* The connection data lacks a key the adapter requires.
MissingRequiredKey ==
    LET keys == DOMAIN connection_data
    IN IF adapter = "frappe"
       THEN ~({"access_token", "domain"} \subseteq keys)
       ELSE \/ "domain" \notin keys
            \/ /\ ~({"token", "user_id"} \subseteq keys)
               /\ ~({"username", "password"} \subseteq keys)

\* C1: constructing either handler from connection data that lacks a
\* required key ends in ValueError, with no client created and no vendor
\* call made.
C1_MissingKeyIsConfigError ==
    (phase # "new" /\ MissingRequiredKey) =>
        /\ phase = "failed"
        /\ op.name = "__init__"
        /\ op.raised = "ValueError"
        /\ op.vendor = <<>>
        /\ op.built = 0
        /\ clients = <<>>
        /\ self.client = None

C1_Witness ==
    /\ phase = "failed"
    /\ adapter = "rocket"
    /\ DOMAIN connection_data = {"domain", "token", "username"}

\* C2: check_connection() of either adapter never raises and returns a
\* status; a status with success false carries the caught error as its
\* error_message (the ping's error exactly when the ping was invoked).
C2_CheckConnectionNeverRaises ==
    op.name = "check_connection" =>
        /\ op.raised = None
        /\ op.ret # <<>>
        /\ op.ret[1].success \in BOOLEAN
        /\ op.ret[1].success = FALSE =>
              /\ op.ret[1].error_message
                    \in {"ConnectionError", "AttributeError", "PingError"}
              /\ op.ret[1].error_message = "PingError" <=> op.vendor # <<>>
              /\ op.vendor # <<>> =>
                    op.ret[1].error_message = op.vendor[1].reply.raised

C2_Witness ==
    /\ op.name = "check_connection"
    /\ op.ret # <<>>
    /\ op.ret[1].success = FALSE
    /\ op.ret[1].error_message = "AttributeError"
    /\ self.client = None

\* C3: two connect() calls in succession, neither raising, return the same
\* client, and the second constructs no client.
C3_ConnectTwiceSameClient ==
    (/\ prev.name = "connect" /\ prev.raised = None
     /\ op.name = "connect" /\ op.raised = None) =>
        /\ op.ret = <<prev.client>>
        /\ op.built = 0

C3_Witness ==
    /\ prev.name = "connect" /\ prev.raised = None
    /\ op.name = "connect" /\ op.raised = None
    /\ prev.client # None
    /\ op.ret = <<prev.client>>
    /\ Len(clients) = 1

\* C4 as claimed: once the handler holds a client, no call ever replaces it.
C4_HandleNeverReplaced ==
    [][self.client # None => self'.client = self.client]_vars

\* C4 as amended: while the connected flag is set and a client is held, no
\* call replaces the client and connect() returns it; the flag is cleared
\* only by a check_connection() of the Frappe handler that reports failure;
\* the Rocket.Chat handler never replaces a client it holds nor clears the flag.
C4_HandleKeptWhileConnected ==
    [][ /\ (self.is_connected /\ self.client # None) =>
              /\ self'.client = self.client
              /\ op'.name = "connect" => op'.ret = <<self.client>> /\ op'.built = 0
        /\ (self.is_connected /\ ~self'.is_connected) =>
              /\ adapter = "frappe"
              /\ op'.name = "check_connection"
              /\ op'.ret[1].success = FALSE
        /\ (adapter = "rocket" /\ self.client # None) =>
              /\ self'.client = self.client
              /\ self'.is_connected
      ]_vars

C4_Witness ==
    /\ prev.name \in {"call_frappe_api", "call_api"}
    /\ prev.raised # None
    /\ op.name = "connect"
    /\ op.built = 0
    /\ self.client # None
    /\ op.ret = <<self.client>>

\* C5: call_frappe_api with a method name outside get_document,
\* get_documents, create_document raises NotImplementedError, makes no
\* vendor call, constructs no client and leaves the handler's fields as
\* they were.
C5_UnknownMethodNotImplemented ==
    (/\ op.name = "call_frappe_api"
     /\ op.args.method_name
           \notin {"get_document", "get_documents", "create_document"}) =>
        /\ op.raised = "NotImplementedError"
        /\ op.ret = <<>>
        /\ op.vendor = <<>>
        /\ op.built = 0
        /\ self = op.pre

C5_Witness ==
    /\ op.name = "call_frappe_api"
    /\ op.args.method_name = "delete_document"
    /\ op.raised = "NotImplementedError"
    /\ self.client # None
    /\ ~self.is_connected

\* C6: after check_connection() returns, is_connected equals the success it
\* reports.
C6_FlagMatchesStatus ==
    (op.name = "check_connection" /\ op.ret # <<>>) =>
        self.is_connected = op.ret[1].success

C6_Witness ==
    /\ op.name = "check_connection"
    /\ op.ret # <<>>
    /\ op.ret[1].success = FALSE
    /\ op.pre.is_connected = TRUE
    /\ self.is_connected = FALSE

\* C7: claim_expense(data) with a payload carrying 'doctype' and 'data', on
\* a handler that holds a connected client, submits exactly one
\* post_document call for that doctype and the decoded data.
C7_ClaimExpenseForwards ==
    (/\ op.name = "claim_expense"
     /\ {"doctype", "data"} \subseteq DOMAIN op.args.data
     /\ op.pre.is_connected /\ op.pre.client # None) =>
        /\ Len(op.vendor) = 1
        /\ op.vendor[1].method = "post_document"
        /\ op.vendor[1].args
              = <<op.args.data.doctype, json_loads(op.args.data.data).value>>

\* C8: after a successful Rocket.Chat construction exactly one
\* authentication mode is bound, the token pair if it is complete and the
\* username/password pair otherwise, the other mode's fields are None, and
\* every client is constructed from those fields.
C8_OneAuthModeBound ==
    (Constructed /\ adapter = "rocket") =>
        LET tokenPair == {"token", "user_id"} \subseteq DOMAIN connection_data
        IN /\ tokenPair =>
                /\ self.auth_token = connection_data.token
                /\ self.auth_user_id = connection_data.user_id
                /\ self.username = None /\ self.password = None
           /\ ~tokenPair =>
                /\ self.username = connection_data.username
                /\ self.password = connection_data.password
                /\ self.auth_token = None /\ self.auth_user_id = None
           /\ \A i \in 1..Len(clients) :
                /\ clients[i] = [user |-> self.username,
                                 password |-> self.password,
                                 auth_token |-> self.auth_token,
                                 user_id |-> self.auth_user_id,
                                 server_url |-> self.domain]
                /\ (clients[i].user = None) # (clients[i].auth_token = None)

C8_Witness ==
    /\ Constructed /\ adapter = "rocket"
    /\ {"token", "user_id", "username", "password"} \subseteq DOMAIN connection_data
    /\ Len(clients) >= 1
    /\ clients[1].auth_token = "tok" /\ clients[1].user = None

\* C9: a dispatcher call makes at most one vendor call and constructs at
\* most one client; a failure of connect(), of the vendor call or (call_api)
\* a non-success status raises and returns nothing; a result is returned
\* only after exactly one vendor call that succeeded, and call_api returns
\* the parsed JSON body of a response that is ok.
C9_FailureIsTerminal ==
    op.name \in {"call_api", "call_frappe_api"} =>
        /\ Len(op.vendor) <= 1
        /\ op.built <= 1
        /\ op.raised # None <=> op.ret = <<>>
        /\ (op.built = 0 /\ (~op.pre.is_connected \/ op.pre.client = None)
            /\ op.vendor = <<>>) => op.raised # None
        /\ op.vendor # <<>> =>
              /\ op.vendor[1].client = self.client
              /\ op.vendor[1].reply.raised # None =>
                    op.raised = op.vendor[1].reply.raised
              /\ (/\ op.name = "call_api"
                  /\ op.vendor[1].reply.raised = None
                  /\ ~Response_ok(op.vendor[1].reply.value)) =>
                    op.raised = "HTTPError"
        /\ op.raised = None =>
              /\ Len(op.vendor) = 1
              /\ op.vendor[1].reply.raised = None
              /\ op.name = "call_api" =>
                    /\ Response_ok(op.vendor[1].reply.value)
                    /\ op.ret = <<json_loads(op.vendor[1].reply.value.text).value>>

C9_Witness ==
    /\ op.name = "call_api"
    /\ op.raised = "HTTPError"
    /\ Len(op.vendor) = 1
    /\ op.vendor[1].reply.value.status_code = 404

\* C10: is_connected implies that the client handle is set.
C10_ConnectedImpliesClient ==
    (Constructed /\ self.is_connected = TRUE) => self.client # None

====
